---------------------------- MODULE Spec2Model ----------------------------
(***************************************************************************)
(* Model of package dsn (src/dsn.go): reconstruction of a Sentry DSN from  *)
(* a forwarded store request.                                              *)
(*                                                                         *)
(* Strings are sequences of one-character strings, so that strings.Split,  *)
(* the unanchored regular expressions and the string concatenations of the *)
(* source are computed character by character.  A call of FromRequest is   *)
(* a run of the state machine: pc is the position inside FromRequest, and  *)
(* an index-out-of-range panic of ParseHeaders ends the run in pc="panic". *)
(***************************************************************************)
EXTENDS Integers, Sequences, FiniteSets

(***************************************************************************)
(* Bounds of the model.                                                    *)
(***************************************************************************)
\* largest number of comma-separated tokens in a generated header value
MaxTokens == 2
\* largest number of extra leading separators in a generated path
MaxPrefix == 1

(***************************************************************************)
(* Program constants.                                                      *)
(***************************************************************************)
\* {32} in the patterns sentry_key=([a-f0-9]{32}), sentry_secret=([a-f0-9]{32})
HexLen == 32
\* pathItems[2], zero-based, is the element number 3 of a TLA+ sequence
ProjectIndex == 3
\* strings.Split(h[0]," ")[1], zero-based, is element number 2
SchemeRestIndex == 2
\* strings.Split(v, "=")[1], zero-based, is element number 2
ValueIndex == 2

ErrNil == "nil"
ErrMissingUser == "sentry:  missing public key"
ErrMissingProjectID == "sentry:  Failed attempt to parse project ID from path --"

(***************************************************************************)
(* Characters and literals.                                                *)
(***************************************************************************)
Digits == {"0", "1", "2", "3", "4", "5", "6", "7", "8", "9"}
HexChars == Digits \cup {"a", "b", "c", "d", "e", "f"}

Empty == << >>
SentryKeyName == <<"s", "e", "n", "t", "r", "y", "_", "k", "e", "y">>
SentrySecretName == <<"s", "e", "n", "t", "r", "y", "_", "s", "e", "c", "r", "e", "t">>
ApiPrefix == <<"/", "a", "p", "i", "/">>
StoreSuffix == <<"/", "s", "t", "o", "r", "e", "/">>
LegacyPattern == <<"/", "a", "p", "i", "/", "s", "t", "o", "r", "e", "/">>
HttpsPrefix == <<"h", "t", "t", "p", "s", ":", "/", "/">>

(***************************************************************************)
(* Library functions of the Go runtime, as far as the package uses them.   *)
(***************************************************************************)
\* s[i..] starts with w
HasPrefixAt(s, i, w) ==
    /\ i >= 1
    /\ i + Len(w) - 1 <= Len(s)
    /\ SubSeq(s, i, i + Len(w) - 1) = w

\* strings.Split(s, sep) for a one-character separator
RECURSIVE Split(_, _)
Split(s, sep) ==
    IF \A i \in 1..Len(s) : s[i] # sep
    THEN <<s>>
    ELSE LET i == CHOOSE k \in 1..Len(s) :
                      /\ s[k] = sep
                      /\ \A j \in 1..(k - 1) : s[j] # sep
         IN  <<SubSeq(s, 1, i - 1)>> \o Split(SubSeq(s, i + 1, Len(s)), sep)

\* strings.Join(parts, sep)
RECURSIVE Join(_, _)
Join(parts, sep) ==
    IF Len(parts) = 0 THEN Empty
    ELSE IF Len(parts) = 1 THEN parts[1]
    ELSE parts[1] \o sep \o Join(Tail(parts), sep)

\* regexp.MatchString(name + `=([a-f0-9]{32})`, v): unanchored
MatchKeyPattern(name, v) ==
    \E i \in 1..Len(v) :
        /\ HasPrefixAt(v, i, name \o <<"=">>)
        /\ i + Len(name) + HexLen <= Len(v)
        /\ \A k \in 1..HexLen : v[i + Len(name) + k] \in HexChars

\* regexp.MatchString(`\/api\/\d+\/store\/`, path): unanchored
MatchProjectPath(path) ==
    \E i \in 1..Len(path) : \E n \in 1..Len(path) :
        /\ HasPrefixAt(path, i, ApiPrefix)
        /\ i + 4 + n <= Len(path)
        /\ \A k \in 1..n : path[i + 4 + k] \in Digits
        /\ HasPrefixAt(path, i + 4 + n + 1, StoreSuffix)

\* regexp.MatchString(`\/api\/store\/`, path): unanchored
MatchLegacyPath(path) ==
    \E i \in 1..Len(path) : HasPrefixAt(path, i, LegacyPattern)

\* url.URL.Hostname(): the host without its port
Hostname(hostport) ==
    IF \A i \in 1..Len(hostport) : hostport[i] # ":"
    THEN hostport
    ELSE Split(hostport, ":")[1]

\* url.URL.Query().Get(key): the first value of key in the raw query, "" if
\* none (the generated queries hold no escapes and no semicolons)
RECURSIVE FirstValue(_, _)
FirstValue(pairs, key) ==
    IF Len(pairs) = 0 THEN Empty
    ELSE LET kv == Split(pairs[1], "=")
         IN  IF pairs[1] # Empty /\ kv[1] = key
             THEN Join(Tail(kv), <<"=">>)
             ELSE FirstValue(Tail(pairs), key)

QueryGet(rawQuery, key) == FirstValue(Split(rawQuery, "&"), key)

(***************************************************************************)
(* The package's functions.                                                *)
(***************************************************************************)
\* type User
User(pk, sk) == [PublicKey |-> pk, SecretKey |-> sk]

\* a pointer is a sequence of at most one element: Nil is the nil pointer
Nil == << >>
Ref(x) == <<x>>

\* type DSN
DSN(url, host, projectID, pk, sk) ==
    [URL |-> url, Host |-> host, ProjectID |-> projectID,
     PublicKey |-> pk, SecretKey |-> sk]

\* CreateDSN with the secret key left out of the URL
CreateDSNWithoutSecret(d, host, projectID) ==
    LET url ==
          IF Len(projectID) = 0 THEN Empty
          ELSE HttpsPrefix \o d.PublicKey \o <<"@">> \o host \o <<"/">> \o projectID
    IN  DSN(url, host, projectID, d.PublicKey, d.SecretKey)

\* CreateDSN: never fails
CreateDSN(d, host, projectID) ==
    LET url ==
          IF Len(projectID) = 0 THEN Empty
          ELSE IF Len(d.PublicKey) > 0 /\ Len(d.SecretKey) = 0
               THEN HttpsPrefix \o d.PublicKey \o <<"@">> \o host \o <<"/">> \o projectID
          ELSE IF Len(d.PublicKey) > 0 /\ Len(d.SecretKey) > 0
               THEN HttpsPrefix \o d.PublicKey \o <<":">> \o d.SecretKey
                      \o <<"@">> \o host \o <<"/">> \o projectID
          ELSE Empty
    IN  DSN(url, host, projectID, d.PublicKey, d.SecretKey)

\* the loop body of ParseHeaders: acc is <<sentryPublic, sentrySecret>>
ScanToken(acc, v) ==
    LET foundPublic == MatchKeyPattern(SentryKeyName, v)
        foundPrivate == MatchKeyPattern(SentrySecretName, v)
        value == Split(v, "=")[ValueIndex]
    IN  << IF foundPublic THEN value ELSE acc[1],
           IF foundPrivate THEN value ELSE acc[2] >>

\* for _, v := range toArray
RECURSIVE ScanTokens(_, _)
ScanTokens(acc, toArray) ==
    IF Len(toArray) = 0 THEN acc
    ELSE ScanTokens(ScanToken(acc, toArray[1]), Tail(toArray))

\* the part of the first header value that ParseHeaders scans
HeaderRest(pieces) == pieces[SchemeRestIndex]

\* a result (*User, error); panics is TRUE when the call does not return
Returns(u, e) == [panics |-> FALSE, user |-> u, err |-> e]
Panics == [panics |-> TRUE, user |-> Nil, err |-> ErrNil]

\* ParseHeaders: strings.Split(h[0]," ")[1] panics (index out of range) when
\* the first value holds no space
ParseHeaders(h) ==
    IF Len(h) = 0 THEN Returns(Nil, ErrMissingUser)
    ELSE LET pieces == Split(h[1], " ")
         IN  IF Len(pieces) < SchemeRestIndex
             THEN Panics
             ELSE LET toArray == Split(HeaderRest(pieces), ",")
                      found == ScanTokens(<<Empty, Empty>>, toArray)
                  IN  IF Len(found[1]) = 0
                      THEN Returns(Nil, ErrMissingUser)
                      ELSE Returns(Ref(User(found[1], found[2])), ErrNil)

\* ParseQueryString
ParseQueryString(rawQuery) ==
    LET pk == QueryGet(rawQuery, SentryKeyName)
        sk == QueryGet(rawQuery, SentrySecretName)
    IN  IF Len(pk) = 0
        THEN Returns(Nil, ErrMissingUser)
        ELSE Returns(Ref(User(pk, sk)), ErrNil)

\* CheckPath that takes every path without a project identifier for the
\* legacy endpoint
CheckPathAcceptingAll(path) ==
    IF ~MatchProjectPath(path)
    THEN [p |-> Empty, err |-> ErrNil]
    ELSE [p |-> Split(path, "/")[ProjectIndex], err |-> ErrNil]

\* CheckPath that rejects the legacy endpoint
CheckPathRejectingLegacy(path) ==
    IF ~MatchProjectPath(path)
    THEN [p |-> Empty, err |-> ErrMissingProjectID]
    ELSE [p |-> Split(path, "/")[ProjectIndex], err |-> ErrNil]

\* the element of the split path that CheckPath returns
PathItem(pathItems) == pathItems[ProjectIndex]

\* CheckPath
CheckPath(path) ==
    LET isValid == MatchProjectPath(path)
        isValidLegacy == MatchLegacyPath(path)
    IN  IF ~isValid
        THEN IF isValidLegacy
             THEN [p |-> Empty, err |-> ErrNil]
             ELSE [p |-> Empty, err |-> ErrMissingProjectID]
        ELSE [p |-> PathItem(Split(path, "/")), err |-> ErrNil]

(***************************************************************************)
(* Requests: the inputs of FromRequest.                                    *)
(***************************************************************************)
\* the keys of the test tables
Key1 == <<"4", "7", "8", "4", "f", "b", "c", "5", "0", "d", "e", "2", "4", "7", "3", "f", "9", "9", "7", "7", "c", "f", "c", "e", "8", "a", "9", "a", "d", "c", "e", "5">>
Key2 == <<"0", "a", "1", "b", "2", "c", "3", "d", "4", "e", "5", "f", "6", "0", "7", "1", "8", "2", "9", "3", "a", "4", "b", "5", "c", "6", "d", "7", "e", "8", "f", "9">>
\* a query-string key that is no 32-digit hexadecimal value
ShortKey == <<"q", "1">>

Scheme == <<"S", "e", "n", "t", "r", "y", " ">>
TokKey == SentryKeyName \o <<"=">> \o Key1
TokSecret == SentrySecretName \o <<"=">> \o Key2
TokVersion == <<"s", "e", "n", "t", "r", "y", "_", "v", "e", "r", "s", "i", "o", "n", "=", "7">>
\* like "sentry_client=<client version, arbitrary>" of the test tables
TokClient == <<"s", "e", "n", "t", "r", "y", "_", "c", "l", "i", "e", "n", "t", "=", "<", "v", " ", "1", ",", " ", "a", ">">>
\* a pair written after a comma and a space
TokSpacedSecret == <<" ">> \o TokSecret
\* a pair behind another "=" in the same token
TokNestedKey == <<"x", "=", "y", ";">> \o TokKey

Tokens == {TokKey, TokSecret, TokClient, TokSpacedSecret, TokNestedKey}
TokenSeqs == UNION {[1..n -> Tokens] : n \in 1..MaxTokens}

\* values of the X-SENTRY-AUTH header: empty, a bare comma-separated list
\* (as the tests build it) or a scheme followed by the list
HeaderValues ==
    {Empty} \cup {s \o Join(ts, <<",">>) : s \in {Empty, Scheme}, ts \in TokenSeqs}
\* r.Header.Values(HTTP_X_SENTRY_AUTH): no value when the header is absent
Headers == {<< >>} \cup {<<v>> : v \in HeaderValues}

RawQueries ==
    { Empty,
      SentryKeyName \o <<"=">> \o ShortKey,
      SentrySecretName \o <<"=">> \o Key1 \o <<"&">> \o SentryKeyName \o <<"=">> \o Key2,
      SentrySecretName \o <<"=">> \o Key2 \o <<"&">> \o TokVersion }

\* extra separators in front of the path
PrefixSeqs == {[i \in 1..n |-> <<"/">>] : n \in 0..MaxPrefix}
PathCores ==
    { <<"/", "a", "p", "i", "/", "1", "2", "3", "4", "/", "s", "t", "o", "r", "e", "/">>,
      <<"/", "a", "p", "i", "/", "s", "t", "o", "r", "e", "/">>,
      <<"/", "a", "p", "i", "/", "/", "1", "2", "3", "4", "/", "/", "s", "t", "o", "r", "e", "/">>,
      <<"/", "a", "p", "i", "/", "1", "2", "3", "4", "/", "s", "t", "o", "r", "e">>,
      <<"/", "a", "p", "i", "/", "v", "/", "s", "t", "o", "r", "e", "/">>,
      <<"/", "a", "p", "i", "/", "0", "/">>,
      <<"/", "v", "1", "/", "a", "p", "i", "/", "1", "2", "3", "4", "/", "s", "t", "o", "r", "e", "/">>,
      Empty }
PathSuffixes == {Empty, <<"/">>}
Paths ==
    {Join(pre, Empty) \o core \o suf :
        pre \in PrefixSeqs, core \in PathCores, suf \in PathSuffixes}

\* r.URL.Host: stripped by a proxy, or a host with a port
URLHosts == {Empty, <<"s", ".", "i", "o", ":", "8", "0">>}
\* r.Host
RequestHosts == {<<"h", ".", "i", "o">>}

Requests ==
    [Header : Headers, RawQuery : RawQueries, Path : Paths,
     URLHost : URLHosts, Host : RequestHosts]

(***************************************************************************)
(* FromRequest as a state machine.                                         *)
(***************************************************************************)
VARIABLES
    r,            \* the request
    pc,           \* position in FromRequest: start, headers, qs, path, build, done, panic
    host,         \* the local host
    usingHeader,  \* the local usingHeader, a *User
    usingQs,      \* the local usingQs, a *User
    user,         \* the local user, a *User
    p,            \* the project identifier returned by CheckPath
    dsn,          \* the returned *DSN
    err           \* the returned error

vars == <<r, pc, host, usingHeader, usingQs, user, p, dsn, err>>

Init ==
    /\ r \in Requests
    /\ pc = "start"
    /\ host = Empty
    /\ usingHeader = Nil
    /\ usingQs = Nil
    /\ user = Nil
    /\ p = Empty
    /\ dsn = Nil
    /\ err = ErrNil

\* host := u.Hostname(); if len(host) == 0 { host = r.Host }
ResolveHost ==
    /\ pc = "start"
    /\ host' = IF Len(Hostname(r.URLHost)) = 0 THEN r.Host ELSE Hostname(r.URLHost)
    /\ pc' = "headers"
    /\ UNCHANGED <<r, usingHeader, usingQs, user, p, dsn, err>>

\* TryHeaders that consults the query string also after the header gave a user
TryHeadersThenAlwaysQuery ==
    /\ pc = "headers"
    /\ LET res == ParseHeaders(r.Header)
       IN  IF res.panics
           THEN /\ pc' = "panic"
                /\ UNCHANGED <<usingHeader, user>>
           ELSE /\ usingHeader' = res.user
                /\ user' = res.user
                /\ pc' = "qs"
    /\ UNCHANGED <<r, host, usingQs, p, dsn, err>>

\* usingHeader, err := ParseHeaders(h); if err != nil {...} else { user = usingHeader }
TryHeaders ==
    /\ pc = "headers"
    /\ LET res == ParseHeaders(r.Header)
       IN  IF res.panics
           THEN /\ pc' = "panic"
                /\ UNCHANGED <<usingHeader, user>>
           ELSE /\ usingHeader' = res.user
                /\ IF res.err # ErrNil
                   THEN /\ pc' = "qs"
                        /\ UNCHANGED user
                   ELSE /\ pc' = "path"
                        /\ user' = res.user
    /\ UNCHANGED <<r, host, usingQs, p, dsn, err>>

\* usingQs, qerr := ParseQueryString(u)
\* if qerr != nil { return nil, ErrMissingUser } else { user = usingQs }
TryQueryString ==
    /\ pc = "qs"
    /\ LET res == ParseQueryString(r.RawQuery)
       IN  /\ usingQs' = res.user
           /\ IF res.err # ErrNil
              THEN /\ pc' = "done"
                   /\ err' = ErrMissingUser
                   /\ UNCHANGED user
              ELSE /\ pc' = "path"
                   /\ user' = res.user
                   /\ UNCHANGED err
    /\ UNCHANGED <<r, host, usingHeader, p, dsn>>

\* p, err := CheckPath(u); if err != nil { return nil, err }
ParseProject ==
    /\ pc = "path"
    /\ LET res == CheckPath(r.Path)
       IN  IF res.err # ErrNil
           THEN /\ pc' = "done"
                /\ err' = res.err
                /\ UNCHANGED p
           ELSE /\ pc' = "build"
                /\ p' = res.p
                /\ UNCHANGED err
    /\ UNCHANGED <<r, host, usingHeader, usingQs, user, dsn>>

\* dsn := CreateDSN(user, host, p); return dsn, nil
CompleteDSN ==
    /\ pc = "build"
    /\ dsn' = Ref(CreateDSN(user[1], host, p))
    /\ pc' = "done"
    /\ UNCHANGED <<r, host, usingHeader, usingQs, user, p, err>>

Next ==
    \/ ResolveHost
    \/ TryHeaders
    \/ TryQueryString
    \/ ParseProject
    \/ CompleteDSN

Spec == Init /\ [][Next]_vars

(***************************************************************************)
(* Vocabulary of the properties.                                           *)
(***************************************************************************)
QueryKey == QueryGet(r.RawQuery, SentryKeyName)
QuerySecret == QueryGet(r.RawQuery, SentrySecretName)

IsHex32(s) == Len(s) = HexLen /\ \A i \in 1..Len(s) : s[i] \in HexChars
HasSpace(v) == \E i \in 1..Len(v) : v[i] = " "
EndsWith(s, w) == HasPrefixAt(s, Len(s) - Len(w) + 1, w)
Occurs(s, w) == \E i \in 1..Len(s) : HasPrefixAt(s, i, w)

\* the path holds neither /api/<digits>/store/ nor /api/store/
NoShape(path) == ~MatchProjectPath(path) /\ ~MatchLegacyPath(path)
\* the path holds /api/store/ and no /api/<digits>/store/
OnlyLegacy(path) == MatchLegacyPath(path) /\ ~MatchProjectPath(path)
\* seg is a non-empty all-digit segment between /api/ and /store/ in path
DigitSegmentAfterApi(path, seg) ==
    /\ seg # Empty
    /\ \A i \in 1..Len(seg) : seg[i] \in Digits
    /\ Occurs(path, ApiPrefix \o seg \o StoreSuffix)

\* what follows the first space of a header value
Remainder(v) ==
    LET i == CHOOSE k \in 1..Len(v) :
                 v[k] = " " /\ \A j \in 1..(k - 1) : v[j] # " "
    IN  SubSeq(v, i + 1, Len(v))

\* the two URL forms of the descriptor
ExpectedURL(pk, sk, h, id) ==
    IF sk = Empty
    THEN HttpsPrefix \o pk \o <<"@">> \o h \o <<"/">> \o id
    ELSE HttpsPrefix \o pk \o <<":">> \o sk \o <<"@">> \o h \o <<"/">> \o id

ProjectDigits == <<"1", "2", "3", "4">>
DoubledPath == <<"/", "/", "a", "p", "i", "/", "/", "1", "2", "3", "4", "/", "/", "s", "t", "o", "r", "e", "/", "/">>

(***************************************************************************)
(* Properties.                                                             *)
(***************************************************************************)

\* C1: with a non-empty public key and a non-empty project identifier the
\* descriptor's URL is https://<pk>@<host>/<id> when the secret key is empty
\* and https://<pk>:<sk>@<host>/<id> otherwise, and Host, ProjectID,
\* PublicKey and SecretKey equal the inputs of CreateDSN.
C1_CreateDSNBuildsURL ==
    (pc = "done" /\ dsn # Nil /\ p # Empty /\ user[1].PublicKey # Empty) =>
        dsn[1] = DSN(ExpectedURL(user[1].PublicKey, user[1].SecretKey, host, p),
                     host, p, user[1].PublicKey, user[1].SecretKey)

C1_Witness ==
    /\ pc = "done" /\ dsn # Nil /\ p = ProjectDigits
    /\ user[1].SecretKey # Empty
    /\ Occurs(dsn[1].URL, <<":">> \o user[1].SecretKey \o <<"@">>)

C3_FallbackToQueryString ==
    LET h == r.Header
        fails == \/ Len(h) = 0
                 \/ h[1] = Empty
                 \/ ~HasSpace(h[1])
                 \/ ~MatchKeyPattern(SentryKeyName, h[1])
    IN  (fails /\ QueryKey # Empty /\ pc \notin {"start", "headers", "qs"}) =>
            /\ pc # "panic"
            /\ err # ErrMissingUser
            /\ user = Ref(User(QueryKey, QuerySecret))
            /\ dsn # Nil => /\ dsn[1].PublicKey = QueryKey
                            /\ dsn[1].SecretKey = QuerySecret

\* C4: a source with a secret key and no public key yields ErrMissingUser:
\* ParseHeaders on a first value with a valid sentry_secret pair and no valid
\* sentry_key pair, ParseQueryString on a query with sentry_secret and no
\* sentry_key, and FromRequest (nil, ErrMissingUser) when neither source has
\* a public key.
C4_SecretWithoutPublic ==
    LET h == r.Header
        secretOnlyHeader ==
            /\ Len(h) > 0
            /\ MatchKeyPattern(SentrySecretName, h[1])
            /\ ~MatchKeyPattern(SentryKeyName, h[1])
        noHeaderKey == Len(h) = 0 \/ ~MatchKeyPattern(SentryKeyName, h[1])
        secretOnlyQuery == QuerySecret # Empty /\ QueryKey = Empty
    IN  /\ (secretOnlyHeader /\ pc \notin {"start", "headers"}) =>
               (pc # "panic" /\ usingHeader = Nil)
        /\ (secretOnlyQuery /\ usingHeader = Nil /\ pc \in {"path", "build", "done"}) =>
               (usingQs = Nil /\ pc = "done" /\ err = ErrMissingUser)
        /\ ((secretOnlyHeader \/ secretOnlyQuery) /\ noHeaderKey /\ QueryKey = Empty
               /\ pc \notin {"start", "headers", "qs"}) =>
               (pc = "done" /\ dsn = Nil /\ err = ErrMissingUser)

C6_DoubledSeparatorsAccepted ==
    (pc = "done" /\ r.Path = DoubledPath /\ user # Nil) =>
        /\ err = ErrNil
        /\ dsn # Nil
        /\ dsn[1].ProjectID = ProjectDigits
        /\ EndsWith(dsn[1].URL, <<"/">> \o ProjectDigits)

\* C7: when CheckPath succeeds on a path that holds /api/<digits>/store/, the
\* project identifier is the non-empty all-digit segment that follows api;
\* it is empty only when the legacy shape alone matched.
C7_ProjectIDIsDigitSegment ==
    pc = "build" =>
        /\ MatchProjectPath(r.Path) => DigitSegmentAfterApi(r.Path, p)
        /\ p = Empty => OnlyLegacy(r.Path)

\* C8: when header extraction succeeds and the query string has a non-empty
\* sentry_key, the user and the descriptor's keys are the header's; the
\* query string is not consulted.
C8_HeaderPrecedence ==
    (usingHeader # Nil /\ QueryKey # Empty /\ pc \in {"qs", "path", "build", "done"}) =>
        /\ pc # "qs"
        /\ user = usingHeader
        /\ usingQs = Nil
        /\ dsn # Nil => /\ dsn[1].PublicKey = usingHeader[1].PublicKey
                        /\ dsn[1].SecretKey = usingHeader[1].SecretKey

C8_Witness ==
    /\ pc = "done" /\ dsn # Nil
    /\ r.Header = <<Scheme \o TokKey>>
    /\ QueryKey = Key2 /\ QuerySecret = Key1
    /\ dsn[1].PublicKey = Key1 /\ dsn[1].SecretKey = Empty

\* C9: for a first value "Sentry <rest>", every comma-separated token of the
\* whole rest is examined: a valid sentry_key pair anywhere in it makes
\* ParseHeaders succeed, and a valid sentry_secret pair anywhere in it is
\* captured as the secret key, also when the rest holds spaces.
C9_WholeRemainderScanned ==
    (pc \notin {"start", "headers"} /\ Len(r.Header) > 0
        /\ HasPrefixAt(r.Header[1], 1, Scheme)) =>
        LET toks == Split(Remainder(r.Header[1]), ",")
            hasKey == \E k \in 1..Len(toks) : MatchKeyPattern(SentryKeyName, toks[k])
            hasSecret == \E k \in 1..Len(toks) : MatchKeyPattern(SentrySecretName, toks[k])
        IN  /\ hasKey => usingHeader # Nil
            /\ (hasSecret /\ usingHeader # Nil) => usingHeader[1].SecretKey # Empty

\* C10: when ParseHeaders succeeds, the public key is the 32 hexadecimal
\* characters that follow sentry_key= in the header value, and a non-empty
\* secret key is the 32 hexadecimal characters that follow sentry_secret=.
C10_KeysAreMatchedHex ==
    usingHeader # Nil =>
        LET v == r.Header[1]
            pk == usingHeader[1].PublicKey
            sk == usingHeader[1].SecretKey
        IN  /\ IsHex32(pk)
            /\ Occurs(v, SentryKeyName \o <<"=">> \o pk)
            /\ sk # Empty => /\ IsHex32(sk)
                             /\ Occurs(v, SentrySecretName \o <<"=">> \o sk)

=============================================================================
